---- MODULE Spec2Model ----
(***************************************************************************)
(* Model of the ClaudeBot dashboard server side: the Discord permission    *)
(* adapter (lib/discord.ts), the per-route access verifiers, the file      *)
(* based configuration store (lib/config.server.ts) and the guild-scoped   *)
(* route handlers (app/api/guilds/[guildId]/...).                          *)
(***************************************************************************)
EXTENDS Integers, Sequences, FiniteSets, TLC

(* ------------------------------------------------------------------ *)
(* Bounds                                                               *)
(* ------------------------------------------------------------------ *)

\* permission bitmasks 0..MaxPerm are sent by the upstream (as decimal strings)
MaxPerm == 40

\* the clock reads 0..MaxTime
MaxTime == 1

\* requests received in one behaviour
MaxRequests == 2

\* longest prompt text a request body carries
MaxPromptLen == 2

(* ------------------------------------------------------------------ *)
(* Values                                                               *)
(* ------------------------------------------------------------------ *)

\* null of a string-valued field, and undefined of an object-valued one
NULL == "null"

undefined == [undefined |-> TRUE]

\* null of systemPrompt, whose texts are sequences of characters
NoPrompt == <<NULL>>

GuildIds == {"7", "42"}

\* guild display names, in localeCompare order
NameOrder == <<"Alpha", "Beta">>

GuildNames == {NameOrder[i] : i \in 1..Len(NameOrder)}

(* ------------------------------------------------------------------ *)
(* lib/discord.ts                                                       *)
(* ------------------------------------------------------------------ *)

MANAGE_GUILD == 32

ADMINISTRATOR == 8

RECURSIVE BitAnd(_, _)
\* a & b on non-negative BigInts
BitAnd(a, b) ==
    IF a = 0 \/ b = 0 THEN 0
    ELSE (IF a % 2 = 1 /\ b % 2 = 1 THEN 1 ELSE 0) + 2 * BitAnd(a \div 2, b \div 2)

RECURSIVE DecimalString(_)
\* the decimal digits of n, most significant first: the form in which the
\* upstream sends DiscordGuild.permissions
DecimalString(n) ==
    IF n < 10 THEN <<n>> ELSE Append(DecimalString(n \div 10), n % 10)

RECURSIVE BigInt(_)
\* BigInt(string) of a string of decimal digits
BigInt(s) ==
    IF s = <<>> THEN 0
    ELSE 10 * BigInt(SubSeq(s, 1, Len(s) - 1)) + s[Len(s)]

\* A guild as the upstream holds it (permissions as a number), and the entry
\* of the answer to users/@me/guilds that carries it (permissions as a
\* decimal string).
UpstreamGuild ==
    [id : GuildIds, name : GuildNames, owner : BOOLEAN, permissions : 0..MaxPerm]

DiscordGuild(u) ==
    [id |-> u.id, name |-> u.name, owner |-> u.owner,
     permissions |-> DecimalString(u.permissions)]

\* canManageGuild without the owner test
canManageGuildNoOwner(guild) ==
    LET permissions == BigInt(guild.permissions)
    IN  \/ BitAnd(permissions, ADMINISTRATOR) = ADMINISTRATOR
        \/ BitAnd(permissions, MANAGE_GUILD) = MANAGE_GUILD

\* canManageGuild without the ADMINISTRATOR test
canManageGuildNoAdmin(guild) ==
    LET permissions == BigInt(guild.permissions)
    IN  \/ guild.owner
        \/ BitAnd(permissions, MANAGE_GUILD) = MANAGE_GUILD

canManageGuild(guild) ==
    LET permissions == BigInt(guild.permissions)
    IN  \/ guild.owner
        \/ BitAnd(permissions, ADMINISTRATOR) = ADMINISTRATOR
        \/ BitAnd(permissions, MANAGE_GUILD) = MANAGE_GUILD

\* The guild lists the upstream answers with, no guild id twice: no guild, one
\* guild with any permissions, or two guilds with permissions of these four.
SampledGuild ==
    {u \in UpstreamGuild : u.permissions \in {0, ADMINISTRATOR, MANAGE_GUILD, MaxPerm}}

UpstreamLists ==
    {<<>>} \cup {<<g>> : g \in UpstreamGuild}
           \cup {p \in SampledGuild \X SampledGuild : p[1].id # p[2].id}

\* What the upstream does with the user's request: it answers with a guild
\* list, answers with a non-ok status, or the fetch itself rejects.
UserOk(list) ==
    [kind |-> "ok", guilds |-> [i \in 1..Len(list) |-> DiscordGuild(list[i])]]

UserFailures ==
    {[kind |-> "status", guilds |-> <<>>], [kind |-> "network", guilds |-> <<>>]}

\* The bot side: DISCORD_BOT_TOKEN may be unset (no request is made), and a
\* request made is answered with the bot's guild ids, a non-ok status, or rejects.
BotAnswers ==
    {[kind |-> "ok", ids |-> s] : s \in SUBSET GuildIds}
        \cup {[kind |-> k, ids |-> {}] : k \in {"notoken", "status", "network"}}

\* A call's outcome: a value, or an exception thrown.
Return(v) == [thrown |-> FALSE, value |-> v]

Throw == [thrown |-> TRUE, value |-> NULL]

\* The same, with the number of requests the call sent upstream.
Fetched(outcome, n) == [thrown |-> outcome.thrown, value |-> outcome.value, fetches |-> n]

\* getUserGuilds answering a failure with the empty list, as getBotGuilds does
getUserGuildsEmptyOnFailure(answer) ==
    IF answer.kind = "ok" THEN Fetched(Return(answer.guilds), 1)
    ELSE Fetched(Return(<<>>), 1)

getUserGuilds(answer) ==
    IF answer.kind = "network" THEN Fetched(Throw, 1)
    ELSE IF answer.kind # "ok" THEN Fetched(Throw, 1)
    ELSE Fetched(Return(answer.guilds), 1)

\* getBotGuilds throwing on a failure, as getUserGuilds does
getBotGuildsRethrow(answer) ==
    IF answer.kind = "notoken" THEN Fetched(Return({}), 0)
    ELSE IF answer.kind = "ok" THEN Fetched(Return(answer.ids), 1)
    ELSE Fetched(Throw, 1)

getBotGuilds(answer) ==
    IF answer.kind = "notoken" THEN Fetched(Return({}), 0)
    ELSE IF answer.kind = "network" THEN Fetched(Return({}), 1)
    ELSE IF answer.kind # "ok" THEN Fetched(Return({}), 1)
    ELSE Fetched(Return(answer.ids), 1)

\* a.name.localeCompare(b.name)
NameRank(n) == CHOOSE i \in 1..Len(NameOrder) : NameOrder[i] = n

localeCompare(a, b) ==
    IF NameRank(a) < NameRank(b) THEN -1 ELSE IF NameRank(a) > NameRank(b) THEN 1 ELSE 0

\* a comparator by name alone
compareGuildsByName(a, b) == localeCompare(a.name, b.name)

\* the comparator of getManageableGuilds: guilds with the bot first, then by name
compareGuilds(a, b) ==
    IF a.hasBot /\ ~b.hasBot THEN -1
    ELSE IF ~a.hasBot /\ b.hasBot THEN 1
    ELSE localeCompare(a.name, b.name)

RECURSIVE insertSorted(_, _)
insertSorted(x, s) ==
    IF s = <<>> THEN <<x>>
    ELSE IF compareGuilds(Head(s), x) <= 0 THEN <<Head(s)>> \o insertSorted(x, Tail(s))
    ELSE <<x>> \o s

RECURSIVE sortGuilds(_)
\* Array.prototype.sort with compareGuilds (stable)
sortGuilds(s) ==
    IF s = <<>> THEN <<>>
    ELSE insertSorted(s[Len(s)], sortGuilds(SubSeq(s, 1, Len(s) - 1)))

\* a filter that keeps the guilds the caller can manage and the bot is in
manageableOfWithBot(userGuilds, botGuildSet) ==
    LET keep(g) == canManageGuild(g) /\ g.id \in botGuildSet
        kept == SelectSeq(userGuilds, keep)
    IN  [i \in 1..Len(kept) |->
            [id |-> kept[i].id, name |-> kept[i].name, hasBot |-> kept[i].id \in botGuildSet]]

\* .filter(canManageGuild).map(...) of getManageableGuilds
manageableOf(userGuilds, botGuildSet) ==
    LET kept == SelectSeq(userGuilds, canManageGuild)
    IN  [i \in 1..Len(kept) |->
            [id |-> kept[i].id, name |-> kept[i].name, hasBot |-> kept[i].id \in botGuildSet]]

\* Promise.all starts both queries; it rejects when either rejects.
getManageableGuilds(userAnswer, botAnswer) ==
    LET userGuilds == getUserGuilds(userAnswer)
        botGuildIds == getBotGuilds(botAnswer)
        outcome ==
            IF userGuilds.thrown \/ botGuildIds.thrown THEN Throw
            ELSE Return(sortGuilds(manageableOf(userGuilds.value, botGuildIds.value)))
    IN  [thrown |-> outcome.thrown, value |-> outcome.value,
         userFetches |-> userGuilds.fetches, botFetches |-> botGuildIds.fetches]

\* guilds.find((g) => g.id === guildId)
findGuild(guilds, guildId) ==
    IF \E i \in 1..Len(guilds) : guilds[i].id = guildId
    THEN guilds[CHOOSE i \in 1..Len(guilds) :
                  /\ guilds[i].id = guildId
                  /\ \A j \in 1..(i - 1) : guilds[j].id # guildId]
    ELSE undefined

Denied == [authorized |-> FALSE, guildName |-> NULL]

Granted(name) == [authorized |-> TRUE, guildName |-> name]

\* verifyAccess without the hasBot test
verifyAccessNoBotCheck(guildId, userAnswer, botAnswer) ==
    LET guilds == getManageableGuilds(userAnswer, botAnswer)
    IN  IF guilds.thrown THEN Throw
        ELSE LET guild == findGuild(guilds.value, guildId)
             IN  IF guild = undefined THEN Return(Denied)
                 ELSE Return(Granted(guild.name))

\* verifyAccess of the config route
verifyAccess(guildId, userAnswer, botAnswer) ==
    LET guilds == getManageableGuilds(userAnswer, botAnswer)
    IN  IF guilds.thrown THEN Throw
        ELSE LET guild == findGuild(guilds.value, guildId)
             IN  IF guild = undefined \/ ~guild.hasBot THEN Return(Denied)
                 ELSE Return(Granted(guild.name))

\* verifyAccess of the commands route
verifyAccessCommands(guildId, userAnswer, botAnswer) ==
    LET guilds == getManageableGuilds(userAnswer, botAnswer)
    IN  IF guilds.thrown THEN Throw
        ELSE LET guild == findGuild(guilds.value, guildId)
             IN  IF guild = undefined \/ ~guild.hasBot THEN Return(Denied)
                 ELSE Return(Granted(guild.name))

\* verifyAccess of the prompt route
verifyAccessPrompt(guildId, userAnswer, botAnswer) ==
    LET guilds == getManageableGuilds(userAnswer, botAnswer)
    IN  IF guilds.thrown THEN Throw
        ELSE LET guild == findGuild(guilds.value, guildId)
             IN  IF guild = undefined \/ ~guild.hasBot THEN Return(Denied)
                 ELSE Return(Granted(guild.name))

\* verifyAccess of the stats route: guild?.hasBot ?? false, with no guild name
verifyAccessStats(guildId, userAnswer, botAnswer) ==
    LET guilds == getManageableGuilds(userAnswer, botAnswer)
    IN  IF guilds.thrown THEN Throw
        ELSE LET guild == findGuild(guilds.value, guildId)
             IN  IF guild = undefined THEN Return(Denied)
                 ELSE IF guild.hasBot THEN Return(Granted(NULL)) ELSE Return(Denied)

Routes == {"config", "commands", "prompt", "stats"}

\* the verifier each route's handlers call
routeVerifier(route, guildId, userAnswer, botAnswer) ==
    CASE route = "config" -> verifyAccess(guildId, userAnswer, botAnswer)
      [] route = "commands" -> verifyAccessCommands(guildId, userAnswer, botAnswer)
      [] route = "prompt" -> verifyAccessPrompt(guildId, userAnswer, botAnswer)
      [] route = "stats" -> verifyAccessStats(guildId, userAnswer, botAnswer)

(* ------------------------------------------------------------------ *)
(* lib/config.types.ts and lib/config.server.ts                         *)
(* ------------------------------------------------------------------ *)

\* Two of the nine settings and two of the five command toggles are modelled;
\* temperature is held in tenths (7 is 0.7).
DEFAULT_SETTINGS == [temperature |-> 7, scoreThreshold |-> 8]

DEFAULT_COMMANDS == [beer |-> TRUE, ping |-> TRUE]

\* { ...base, ...more }; spreading undefined adds nothing
spread(base, more) ==
    IF "undefined" \in DOMAIN more THEN base
    ELSE [f \in DOMAIN base \cup DOMAIN more |->
            IF f \in DOMAIN more THEN more[f] ELSE base[f]]

\* The content of <guildId>.json: no such file, a file whose text does not
\* parse (writeFile truncates the file when it opens it and writes the text
\* afterwards), or the text of a record.
Absent == [file |-> "absent"]

Truncated == [file |-> "truncated"]

\* JSON.stringify(config, null, 2): the properties in insertion order
stringify(config) ==
    <<  <<"guildId", config.guildId>>, <<"guildName", config.guildName>>,
        <<"settings", config.settings>>, <<"commands", config.commands>>,
        <<"systemPrompt", config.systemPrompt>>,
        <<"updatedAt", config.updatedAt>>, <<"updatedBy", config.updatedBy>> >>

\* JSON.parse(content)
parse(text) ==
    LET at(k) == text[CHOOSE i \in 1..Len(text) : text[i][1] = k][2]
    IN  [guildId |-> at("guildId"), guildName |-> at("guildName"),
         settings |-> at("settings"), commands |-> at("commands"),
         systemPrompt |-> at("systemPrompt"),
         updatedAt |-> at("updatedAt"), updatedBy |-> at("updatedBy")]

\* getGuildConfig that finds no record in any file
getGuildConfigNeverFinds(content) == undefined

\* getGuildConfig on the content readFile finds: the record, or null when the
\* file does not exist or is invalid
getGuildConfig(content) ==
    IF content.file = "json" THEN parse(content.text) ELSE undefined

\* a default record that takes the guild id for the guild name
newConfigNamedById(guildId, guildName, t) ==
    [guildId |-> guildId, guildName |-> guildId,
     settings |-> DEFAULT_SETTINGS, commands |-> DEFAULT_COMMANDS,
     systemPrompt |-> NoPrompt, updatedAt |-> t, updatedBy |-> "system"]

\* the record getOrCreateGuildConfig makes when there is none
newConfig(guildId, guildName, t) ==
    [guildId |-> guildId, guildName |-> guildName,
     settings |-> DEFAULT_SETTINGS, commands |-> DEFAULT_COMMANDS,
     systemPrompt |-> NoPrompt, updatedAt |-> t, updatedBy |-> "system"]

\* the three updaters, from the record they got to the record they save
\* updateGuildSettings spreading the partial over the defaults
mergeSettingsReplace(config, settings, t, updatedBy) ==
    [config EXCEPT !.settings = spread(DEFAULT_SETTINGS, settings),
                   !.updatedAt = t, !.updatedBy = updatedBy]

mergeSettings(config, settings, t, updatedBy) ==
    [config EXCEPT !.settings = spread(config.settings, settings),
                   !.updatedAt = t, !.updatedBy = updatedBy]

\* updateGuildCommands that leaves updatedBy as it was
mergeCommandsKeepsAuthor(config, commands, t, updatedBy) ==
    [config EXCEPT !.commands = spread(config.commands, commands), !.updatedAt = t]

\* updateGuildCommands spreading the toggles over the defaults
mergeCommandsReplace(config, commands, t, updatedBy) ==
    [config EXCEPT !.commands = spread(DEFAULT_COMMANDS, commands),
                   !.updatedAt = t, !.updatedBy = updatedBy]

mergeCommands(config, commands, t, updatedBy) ==
    [config EXCEPT !.commands = spread(config.commands, commands),
                   !.updatedAt = t, !.updatedBy = updatedBy]

mergePrompt(config, systemPrompt, t, updatedBy) ==
    [config EXCEPT !.systemPrompt = systemPrompt,
                   !.updatedAt = t, !.updatedBy = updatedBy]

\* The shared stats file, written by the bot process: absent, unparseable,
\* or the text of a BotStats value.
GuildCounters == [messagesCached |-> 3, tokensUsed |-> 5, lastActivity |-> "today"]

\* the counters the bot has written for guild g
GuildCountersOf(g) ==
    IF g = "7" THEN GuildCounters
    ELSE [messagesCached |-> 1, tokensUsed |-> 2, lastActivity |-> "yesterday"]

StatsArtifacts ==
    {Absent, Truncated} \cup
    {[file |-> "json", value |-> [uptime |-> "1h", latency |-> 42,
                                  guilds |-> [g \in D |-> GuildCountersOf(g)]]] :
        D \in SUBSET GuildIds}

\* getBotStats on the content readFile finds
getBotStats(content) ==
    IF content.file = "json" THEN content.value ELSE undefined

\* getGuildStats that has no data for a guild without an entry
getGuildStatsNeedsEntry(content, guildId) ==
    LET stats == getBotStats(content)
    IN  IF stats = undefined \/ guildId \notin DOMAIN stats.guilds THEN undefined
        ELSE [messagesCached |-> stats.guilds[guildId].messagesCached,
              tokensUsed |-> stats.guilds[guildId].tokensUsed,
              lastActivity |-> stats.guilds[guildId].lastActivity,
              botUptime |-> stats.uptime,
              botLatency |-> stats.latency]

getGuildStats(content, guildId) ==
    LET stats == getBotStats(content)
    IN  IF stats = undefined THEN undefined
        ELSE LET known == guildId \in DOMAIN stats.guilds
             IN  [messagesCached |-> IF known THEN stats.guilds[guildId].messagesCached ELSE 0,
                  tokensUsed |-> IF known THEN stats.guilds[guildId].tokensUsed ELSE 0,
                  lastActivity |-> IF known THEN stats.guilds[guildId].lastActivity
                                   ELSE "Never",
                  botUptime |-> stats.uptime,
                  botLatency |-> stats.latency]

\* DEFAULT_SYSTEM_PROMPT, a text with no white space around it
DEFAULT_SYSTEM_PROMPT == <<"a">>

RECURSIVE trimStart(_)
trimStart(s) == IF s # <<>> /\ Head(s) = " " THEN trimStart(Tail(s)) ELSE s

RECURSIVE trimEnd(_)
trimEnd(s) ==
    IF s # <<>> /\ s[Len(s)] = " " THEN trimEnd(SubSeq(s, 1, Len(s) - 1)) ELSE s

\* String.prototype.trim
trim(s) == trimEnd(trimStart(s))

(* ------------------------------------------------------------------ *)
(* State                                                                *)
(* ------------------------------------------------------------------ *)

VARIABLES
    applied,    \* the last application of a function of lib/discord.ts, with its inputs
    files,      \* the configuration directory: guild id -> content of <guildId>.json
    now,        \* the clock that new Date() reads
    started,    \* number of requests received so far
    proc,       \* the requests being served: what each handler holds and awaits
    last,       \* the request that the last step answered, if it answered one
    client      \* a browser that shows the configuration of a guild: its SWR cache

vars == <<applied, files, now, started, proc, last, client>>

\* the server serves up to two requests at once
Procs == {"r1", "r2"}

\* each slot serves one client: its user id, and the display name the
\* upstream gives that user's guilds
UserOf(p) == IF p = "r1" THEN "u1" ELSE "u2"

NameOf(p) == IF p = "r1" THEN "Alpha" ELSE "Beta"

\* auth(): no session, a session without access token, or one with both
Sessions(p) == {undefined} \cup [accessToken : {NULL, "token"}, userId : {UserOf(p)}]

\* the guild that requests name
RequestGuilds == {"7"}

\* the answers the upstream gives a handler's verifier: the caller is in no
\* guild, or in the guild of the request
HandlerLists(p) ==
    {<<>>} \cup {<<g>> : g \in {u \in UpstreamGuild :
                                  /\ u.id \in RequestGuilds
                                  /\ u.name = NameOf(p)
                                  /\ u.permissions \in {0, MANAGE_GUILD}
                                  /\ u.owner => u.permissions = 0}}

HandlerUserAnswers(p) == {UserOk(l) : l \in HandlerLists(p)} \cup UserFailures

\* the partial settings and command toggles a caller passes
PartialSettings ==
    {[temperature |-> 5], [scoreThreshold |-> 9], [temperature |-> 5, scoreThreshold |-> 9]}

PartialCommands == {[beer |-> FALSE], [ping |-> FALSE]}

RECURSIVE Texts(_)
Texts(n) ==
    IF n = 0 THEN {<<>>}
    ELSE Texts(n - 1) \cup {Append(t, c) : t \in {u \in Texts(n - 1) : Len(u) = n - 1},
                                         c \in {" ", "a"}}

\* the systemPrompt of the bodies sent to the prompt endpoint: none, the
\* empty string, blanks, the built-in default, and a text between blanks
SubmittedPrompts ==
    {NoPrompt, <<>>, <<" ">>, DEFAULT_SYSTEM_PROMPT, <<" ", "a", "a", " ">>}

\* request bodies: text that is no JSON, the JSON null, or an object
Bodies(route) ==
    {[kind |-> "invalid"], [kind |-> "null"]} \cup
    CASE route = "config" ->
            {[kind |-> "object", settings |-> x] : x \in {[temperature |-> 5], undefined}}
      [] route = "commands" ->
            {[kind |-> "object", commands |-> x] : x \in {[beer |-> FALSE], undefined}}
      [] route = "prompt" ->
            {[kind |-> "object", systemPrompt |-> x] : x \in SubmittedPrompts}

\* a slot that serves no request, with what is recorded about a request:
\*   hadSession, verdict, userFailed, botFailed, op: what happened to it;
\*   verifiedFor: the guild its verifier granted access to;
\*   touched: the guilds whose file it has read or written;
\*   alone: no other request was served while it was;
\*   pre: the file's content when its store function was called (the stats
\*        file's, for getGuildStats);
\*   base: the record its updater got from getOrCreateGuildConfig;
\*   missed: the updates written to the file between its read and its write;
\*   prev: the guild and the record of the getOrCreateGuildConfig that returned
\*         just before its store function was called, if one did;
\*   raw: the body a PUT received;
\*   userFetches, botFetches: the queries for the caller's guilds and for the
\*        bot's guilds that it has sent upstream.
IdleProc ==
    [pc |-> "idle", route |-> NULL, method |-> NULL, guildId |-> NULL,
     userId |-> NULL, access |-> Denied, body |-> undefined, config |-> undefined,
     status |-> 0, resp |-> undefined,
     hadSession |-> FALSE, verdict |-> "none", userFailed |-> FALSE,
     botFailed |-> FALSE, verifiedFor |-> NULL, touched |-> {}, op |-> "none",
     alone |-> FALSE, pre |-> undefined, base |-> undefined, missed |-> {},
     prev |-> undefined, raw |-> undefined, userFetches |-> 0, botFetches |-> 0]

\* The page of a guild is mounted and useSWR has no data yet.
\*   cache: the data of the SWR key, undefined while there is none;
\*   route, argument: the update in progress;
\*   optimistic: the copy that update put in the cache;
\*   confirmed: the last record a GET answered with status 200;
\*   rethrown: the update in progress has failed, its error goes to the caller;
\*   settled: how the last update ended: the answer to its PUT and to the
\*            re-fetch that followed.
MountedClient ==
    [pc |-> "mounted", cache |-> undefined, route |-> NULL, argument |-> undefined,
     optimistic |-> undefined, confirmed |-> undefined, rethrown |-> FALSE,
     settled |-> undefined, calls |-> 0]

Init ==
    /\ client = MountedClient
    /\ applied = [op |-> "none"]
    /\ files = [g \in GuildIds |-> Absent]
    /\ now = 0
    /\ started = 0
    /\ proc = [p \in Procs |-> IdleProc]
    /\ last = IdleProc

\* request p goes on as r, or has been answered as r and leaves its slot
Continue(p, r) ==
    /\ proc' = [proc EXCEPT ![p] = IF r.pc = "done" THEN IdleProc ELSE r]
    /\ last' = IF r.pc = "done" THEN r ELSE IdleProc

(* ------------------------------------------------------------------ *)
(* app/api/guilds/[guildId]/{config,commands,prompt,stats}/route.ts     *)
(* ------------------------------------------------------------------ *)

\* NextResponse.json(body, { status })
Respond(r, status, body) == [r EXCEPT !.pc = "done", !.status = status, !.resp = body]

\* an exception that leaves the handler: the framework answers 500
Unhandled == [unhandled |-> TRUE]

\* the body of each handler's 200 response
okBody(route, method, config) ==
    CASE route = "config" -> config
      [] route = "commands" -> [commands |-> config.commands]
      [] route = "prompt" /\ method = "GET" ->
            [systemPrompt |-> config.systemPrompt, defaultPrompt |-> DEFAULT_SYSTEM_PROMPT,
             isCustom |-> config.systemPrompt # NoPrompt]
      [] route = "prompt" /\ method = "PUT" ->
            [systemPrompt |-> config.systemPrompt,
             isCustom |-> config.systemPrompt # NoPrompt]

\* the body of each handler's catch
failBody(route, method) ==
    [error |-> CASE route = "config" /\ method = "GET" -> "Failed to get config"
                 [] route = "config" /\ method = "PUT" -> "Failed to update config"
                 [] route = "commands" /\ method = "GET" -> "Failed to get commands"
                 [] route = "commands" /\ method = "PUT" -> "Failed to update commands"
                 [] route = "prompt" /\ method = "GET" -> "Failed to get prompt"
                 [] route = "prompt" /\ method = "PUT" -> "Failed to update prompt"
                 [] route = "stats" -> "Failed to get stats"]

\* a catch that leaves out { status: 500 }
CaughtAnswers200(r) == Respond([r EXCEPT !.op = "threw"], 200, failBody(r.route, r.method))

\* the handler's catch: log, and answer 500
Caught(r) == Respond([r EXCEPT !.op = "threw"], 500, failBody(r.route, r.method))

\* the handler's answer to what its store function returned
Answered(r) == Respond([r EXCEPT !.op = "ok"], 200, okBody(r.route, r.method, r.config))

\* the prompt handler passing body.systemPrompt on as it came
updaterArgumentUntrimmed(route, body) ==
    CASE route = "config" -> body.settings
      [] route = "commands" -> body.commands
      [] route = "prompt" -> body.systemPrompt

\* the argument each PUT handler takes from a parsed body
updaterArgument(route, body) ==
    CASE route = "config" -> body.settings
      [] route = "commands" -> body.commands
      [] route = "prompt" ->
            IF body.systemPrompt = NoPrompt \/ trim(body.systemPrompt) = <<>>
            THEN NoPrompt ELSE trim(body.systemPrompt)

\* the updater each PUT handler calls, after its getOrCreateGuildConfig
updated(route, config, argument, t, updatedBy) ==
    CASE route = "config" -> mergeSettings(config, argument, t, updatedBy)
      [] route = "commands" -> mergeCommands(config, argument, t, updatedBy)
      [] route = "prompt" -> mergePrompt(config, argument, t, updatedBy)

\* the answers about the bot's guilds that a handler's verifier gets: the bot
\* is in the guild of the request and in no other, or in none
HandlerBotAnswers == {a \in BotAnswers : a.ids \subseteq RequestGuilds}

\* a request arrives
Start(p) ==
    /\ proc[p].pc = "idle"
    /\ started < MaxRequests
    /\ \E route \in Routes, method \in {"GET", "PUT"}, guildId \in RequestGuilds :
        /\ route = "stats" => method = "GET"
        /\ Continue(p, [IdleProc EXCEPT !.pc = "auth", !.route = route,
                                        !.method = method, !.guildId = guildId])
    /\ started' = started + 1
    /\ UNCHANGED <<client, applied, files, now>>

\* the 401 check without its return
AuthWithoutReturn(p) ==
    /\ proc[p].pc = "auth"
    /\ \E session \in Sessions(p) :
        Continue(p, IF session = undefined \/ session.accessToken = NULL
                    THEN [proc[p] EXCEPT !.pc = "verify", !.userId = UserOf(p)]
                    ELSE [proc[p] EXCEPT !.pc = "verify", !.userId = session.userId,
                                         !.hadSession = TRUE])
    /\ UNCHANGED <<client, applied, files, now, started>>

\* const session = await auth(); if (!session?.accessToken) return 401
Auth(p) ==
    /\ proc[p].pc = "auth"
    /\ \E session \in Sessions(p) :
        Continue(p, IF session = undefined \/ session.accessToken = NULL
                    THEN Respond(proc[p], 401, [error |-> "Unauthorized"])
                    ELSE [proc[p] EXCEPT !.pc = "verify", !.userId = session.userId,
                                         !.hadSession = TRUE])
    /\ UNCHANGED <<client, applied, files, now, started>>

\* where a handler goes once access is granted
afterAccess(r) ==
    IF r.route = "stats" THEN "stats" ELSE IF r.method = "PUT" THEN "body" ELSE "read"

\* the 403 check without its return
VerifyWithoutReturn(p) ==
    /\ proc[p].pc = "verify"
    /\ \E userAnswer \in HandlerUserAnswers(p), botAnswer \in HandlerBotAnswers :
        LET r == proc[p]
            access == routeVerifier(r.route, r.guildId, userAnswer, botAnswer)
            queries == getManageableGuilds(userAnswer, botAnswer)
            seen == [r EXCEPT !.userFailed = userAnswer.kind # "ok",
                              !.botFailed = botAnswer.kind \in {"status", "network"},
                              !.userFetches = @ + queries.userFetches,
                              !.botFetches = @ + queries.botFetches]
        IN  Continue(p,
                IF access.thrown
                THEN Respond([seen EXCEPT !.verdict = "threw"], 500, Unhandled)
                ELSE IF ~access.value.authorized
                THEN [seen EXCEPT !.verdict = "denied", !.access = Granted(NameOf(p)),
                                  !.pc = afterAccess(r)]
                ELSE [seen EXCEPT !.verdict = "granted", !.access = access.value,
                                  !.verifiedFor = r.guildId, !.pc = afterAccess(r)])
    /\ UNCHANGED <<client, applied, files, now, started>>

\* const access = await verifyAccess(...); if (!access.authorized) return 403
Verify(p) ==
    /\ proc[p].pc = "verify"
    /\ \E userAnswer \in HandlerUserAnswers(p), botAnswer \in HandlerBotAnswers :
        LET r == proc[p]
            access == routeVerifier(r.route, r.guildId, userAnswer, botAnswer)
            queries == getManageableGuilds(userAnswer, botAnswer)
            seen == [r EXCEPT !.userFailed = userAnswer.kind # "ok",
                              !.botFailed = botAnswer.kind \in {"status", "network"},
                              !.userFetches = @ + queries.userFetches,
                              !.botFetches = @ + queries.botFetches]
        IN  Continue(p,
                IF access.thrown
                THEN Respond([seen EXCEPT !.verdict = "threw"], 500, Unhandled)
                ELSE IF ~access.value.authorized
                THEN Respond([seen EXCEPT !.verdict = "denied"], 403, [error |-> "Forbidden"])
                ELSE [seen EXCEPT !.verdict = "granted", !.access = access.value,
                                  !.verifiedFor = r.guildId, !.pc = afterAccess(r)])
    /\ UNCHANGED <<client, applied, files, now, started>>

\* a handler that goes on with an empty object when request.json() throws
BodyOrEmptyObject(p) ==
    /\ proc[p].pc = "body"
    /\ \E body \in Bodies(proc[p].route) :
        LET r == [proc[p] EXCEPT !.raw = body]
            empty == [kind |-> "object", settings |-> undefined,
                      commands |-> undefined, systemPrompt |-> NoPrompt]
        IN  Continue(p, IF body.kind = "null" THEN Caught(r)
                        ELSE [r EXCEPT !.body = updaterArgument(r.route,
                                            IF body.kind = "invalid" THEN empty ELSE body),
                                       !.pc = "read"])
    /\ UNCHANGED <<client, applied, files, now, started>>

\* const body = await request.json(), and the argument of the updater
Body(p) ==
    /\ proc[p].pc = "body"
    /\ \E body \in Bodies(proc[p].route) :
        LET r == [proc[p] EXCEPT !.raw = body]
        IN  Continue(p, IF body.kind # "object" THEN Caught(r)
                        ELSE [r EXCEPT !.body = updaterArgument(r.route, body),
                                       !.pc = "read"])
    /\ UNCHANGED <<client, applied, files, now, started>>

(* ------------------------------------------------------------------ *)
(* The store functions, as the handlers run them                        *)
(* ------------------------------------------------------------------ *)

\* getOrCreateGuildConfig giving the record it found the name it was called with
ReadTakesCallerName(p) ==
    LET r == proc[p]
        found == getGuildConfig(files[r.guildId])
        existing == IF found = undefined THEN undefined
                    ELSE [found EXCEPT !.guildName = r.access.guildName]
        seen == [r EXCEPT !.touched = @ \cup {r.guildId}]
    IN  /\ r.pc = "read"
        /\ Continue(p,
                IF existing # undefined /\ r.method = "GET"
                THEN Answered([seen EXCEPT !.config = existing])
                ELSE IF existing # undefined
                THEN [seen EXCEPT !.base = existing, !.pc = "save",
                                  !.config = updated(r.route, existing, r.body, now, r.userId)]
                ELSE [seen EXCEPT !.pc = "create",
                                  !.config = newConfig(r.guildId, r.access.guildName, now)])
        /\ UNCHANGED <<client, applied, files, now, started>>

\* getGuildConfig returns what readFile found. An existing record ends a GET
\* and is merged by a PUT; with none, getOrCreateGuildConfig makes the default.
Read(p) ==
    LET r == proc[p]
        existing == getGuildConfig(files[r.guildId])
        seen == [r EXCEPT !.touched = @ \cup {r.guildId}]
    IN  /\ r.pc = "read"
        /\ Continue(p,
                IF existing # undefined /\ r.method = "GET"
                THEN Answered([seen EXCEPT !.config = existing])
                ELSE IF existing # undefined
                THEN [seen EXCEPT !.base = existing, !.pc = "save",
                                  !.config = updated(r.route, existing, r.body, now, r.userId)]
                ELSE [seen EXCEPT !.pc = "create",
                                  !.config = newConfig(r.guildId, r.access.guildName, now)])
        /\ UNCHANGED <<client, applied, files, now, started>>

\* saveGuildConfig(newConfig): mkdir and writeFile's open, which truncates
Create(p) ==
    LET r == proc[p]
    IN  /\ r.pc = "create"
        /\ \/ /\ files' = [files EXCEPT ![r.guildId] = Truncated]
              /\ Continue(p, [r EXCEPT !.pc = "creating"])
           \/ /\ files' = files
              /\ Continue(p, Caught(r))
        /\ UNCHANGED <<client, applied, now, started>>

\* writeFile writes the default record; getOrCreateGuildConfig returns it, which
\* ends a GET, and a PUT merges into it
Creating(p) ==
    LET r == proc[p]
    IN  /\ r.pc = "creating"
        /\ \/ /\ files' = [files EXCEPT ![r.guildId] =
                              [file |-> "json", text |-> stringify(r.config)]]
              /\ Continue(p,
                      IF r.method = "GET" THEN Answered(r)
                      ELSE [r EXCEPT !.base = r.config, !.pc = "save",
                                     !.config = updated(r.route, r.config, r.body, now, r.userId)])
           \/ /\ files' = files
              /\ Continue(p, Caught(r))
        /\ UNCHANGED <<client, applied, now, started>>

\* an updater that merges into the record the file holds when it opens it
SaveMergedIntoCurrent(p) ==
    LET r == proc[p]
        current == getGuildConfig(files[r.guildId])
        fresh == IF current = undefined THEN r.config
                 ELSE updated(r.route, current, r.body, r.config.updatedAt, r.userId)
    IN  /\ r.pc = "save"
        /\ \/ /\ files' = [files EXCEPT ![r.guildId] = Truncated]
              /\ Continue(p, [r EXCEPT !.pc = "saving", !.config = fresh])
           \/ /\ files' = files
              /\ Continue(p, Caught(r))
        /\ UNCHANGED <<client, applied, now, started>>

\* saveGuildConfig(config) of an updater: mkdir and writeFile's open
Save(p) ==
    LET r == proc[p]
    IN  /\ r.pc = "save"
        /\ \/ /\ files' = [files EXCEPT ![r.guildId] = Truncated]
              /\ Continue(p, [r EXCEPT !.pc = "saving"])
           \/ /\ files' = files
              /\ Continue(p, Caught(r))
        /\ UNCHANGED <<client, applied, now, started>>

\* an update of guild g by r was written: the requests that hold a record of g
\* read earlier and not yet written have missed it
Missing(r, q) ==
    IF q.guildId = r.guildId /\ q.pc \in {"create", "creating", "save", "saving"}
    THEN q.missed \cup {[route |-> r.route, argument |-> r.body]} ELSE q.missed

\* writeFile writes the merged record; the updater returns it and the handler
\* answers with it
Saving(p) ==
    LET r == proc[p]
    IN  /\ r.pc = "saving"
        /\ \/ /\ files' = [files EXCEPT ![r.guildId] =
                              [file |-> "json", text |-> stringify(r.config)]]
              /\ proc' = [q \in Procs |->
                      IF q = p THEN IdleProc
                      ELSE [proc[q] EXCEPT !.missed = Missing(r, proc[q])]]
              /\ last' = Answered(r)
           \/ /\ files' = files
              /\ Continue(p, Caught(r))
        /\ UNCHANGED <<client, applied, now, started>>

\* a stats handler in which a stats file that cannot be read is an error
StatsWithoutPlaceholder(p) ==
    LET r == proc[p]
    IN  /\ r.pc = "stats"
        /\ \E content \in StatsArtifacts :
            LET stats == getGuildStats(content, r.guildId)
                seen == [r EXCEPT !.pre = content]
            IN  Continue(p, IF stats = undefined THEN Caught(seen)
                            ELSE Respond([seen EXCEPT !.op = "ok"], 200, stats))
        /\ UNCHANGED <<client, applied, files, now, started>>

\* the stats handler: getGuildStats, with placeholders when there is no data
Stats(p) ==
    LET r == proc[p]
    IN  /\ r.pc = "stats"
        /\ \E content \in StatsArtifacts :
            LET stats == getGuildStats(content, r.guildId)
            IN  Continue(p, Respond([r EXCEPT !.op = "ok", !.pre = content], 200,
                            IF stats = undefined
                            THEN [messagesCached |-> 0, tokensUsed |-> 0,
                                  lastActivity |-> "Never", botUptime |-> "Unknown",
                                  botLatency |-> 0]
                            ELSE stats))
        /\ UNCHANGED <<client, applied, files, now, started>>

\* Time passes: the clock that new Date() reads has advanced by its resolution.
\* The requests of Spec are served within one reading of the clock; SpecStore
\* lets it advance between any two steps.
Tick ==
    /\ now < MaxTime
    /\ now' = now + 1
    /\ UNCHANGED <<client, applied, files, started, proc, last>>

\* the arguments a caller of the store passes to an updater
Arguments(route) ==
    CASE route = "config" -> PartialSettings
      [] route = "commands" -> PartialCommands
      [] route = "prompt" -> {<<"a">>, NoPrompt}

\* A caller that holds a session and has been granted access calls a store
\* function: getOrCreateGuildConfig (as GET config does) or one of the three
\* updaters (as the PUT handlers do).
Invoke(p, route, method, guildId, argument) ==
    /\ proc[p].pc = "idle"
    /\ started < MaxRequests
    /\ proc' = [q \in Procs |->
            IF q = p
            THEN [IdleProc EXCEPT !.pc = "read", !.route = route, !.method = method,
                    !.guildId = guildId, !.userId = UserOf(p),
                    !.access = Granted(NameOf(p)), !.body = argument,
                    !.hadSession = TRUE, !.verdict = "granted", !.verifiedFor = guildId,
                    !.alone = \A o \in Procs \ {p} : proc[o].pc = "idle",
                    !.pre = files[guildId],
                    !.prev = IF last.pc = "done" /\ last.status = 200
                                /\ last.route = "config" /\ last.method = "GET"
                             THEN [guildId |-> last.guildId, config |-> last.config]
                             ELSE undefined]
            ELSE [proc[q] EXCEPT !.alone = FALSE]]
    /\ last' = IdleProc
    /\ started' = started + 1
    /\ UNCHANGED <<client, applied, files, now>>

\* One call at a time, of any store function, for any guild.
Call(p) ==
    /\ \A o \in Procs : proc[o].pc = "idle"
    /\ \E route \in {"config", "commands", "prompt"}, method \in {"GET", "PUT"},
          guildId \in GuildIds :
        /\ method = "GET" => route = "config"
        /\ \E argument \in IF method = "PUT" THEN Arguments(route) ELSE {undefined} :
            Invoke(p, route, method, guildId, argument)

NextStore ==
    \/ Tick
    \/ \E p \in Procs :
        \/ Call(p)
        \/ Read(p)
        \/ Create(p)
        \/ Creating(p)
        \/ Save(p)
        \/ Saving(p)

SpecStore == Init /\ [][NextStore]_vars

\* Calls of getOrCreateGuildConfig and updateGuildSettings for one guild, which
\* may overlap.
CallRacing(p) ==
    \E method \in {"GET", "PUT"} :
        \E argument \in IF method = "PUT" THEN Arguments("config") ELSE {undefined} :
            Invoke(p, "config", method, "7", argument)

NextRace ==
    \E p \in Procs :
        \/ CallRacing(p)
        \/ Read(p)
        \/ Create(p)
        \/ Creating(p)
        \/ Save(p)
        \/ Saving(p)

SpecRace == Init /\ [][NextRace]_vars

(* ------------------------------------------------------------------ *)
(* hooks/useGuildConfig: the browser of one administrator of one guild  *)
(* ------------------------------------------------------------------ *)

\* the guild whose pages the browser shows, its name, and the user signed in
ClientGuild == "7"

ClientGuildName == NameOf("r1")

ClientUser == UserOf("r1")

\* What fetch gets for GET /api/guilds/G/config, with the file the request
\* leaves: the response of the handler (200 with the record, which it creates
\* when there is none; 401, 403 or 500 with an error body), or no response.
GetAnswers(content, t) ==
    LET existing == getGuildConfig(content)
        record == IF existing # undefined THEN existing
                  ELSE newConfig(ClientGuild, ClientGuildName, t)
    IN  {[kind |-> "response", ok |-> TRUE, body |-> okBody("config", "GET", record),
          file |-> [file |-> "json", text |-> stringify(record)]]}
        \cup {[kind |-> "response", ok |-> FALSE, body |-> [error |-> e], file |-> content] :
                e \in {"Unauthorized", "Forbidden", failBody("config", "GET").error}}
        \cup {[kind |-> "rejected", ok |-> FALSE, body |-> undefined, file |-> content]}

\* The same for the PUT of an update, whose body carries the argument.
PutAnswers(route, argument, content, t) ==
    LET existing == getGuildConfig(content)
        base == IF existing # undefined THEN existing
                ELSE newConfig(ClientGuild, ClientGuildName, t)
        body == CASE route = "config" -> [kind |-> "object", settings |-> argument]
                  [] route = "commands" -> [kind |-> "object", commands |-> argument]
                  [] route = "prompt" -> [kind |-> "object", systemPrompt |-> argument]
        record == updated(route, base, updaterArgument(route, body), t, ClientUser)
    IN  {[kind |-> "response", ok |-> TRUE, body |-> okBody(route, "PUT", record),
          file |-> [file |-> "json", text |-> stringify(record)]]}
        \cup {[kind |-> "response", ok |-> FALSE, body |-> [error |-> e], file |-> content] :
                e \in {"Unauthorized", "Forbidden", failBody(route, "PUT").error}}
        \cup {[kind |-> "rejected", ok |-> FALSE, body |-> undefined, file |-> content]}

\* const fetcher = (url) => fetch(url).then((res) => res.json())
fetcher(answer) == IF answer.kind = "rejected" THEN Throw ELSE Return(answer.body)

\* { ...data, [key]: value }
withField(data, key, value) ==
    [f \in DOMAIN data \cup {key} |-> IF f = key THEN value ELSE data[f]]

\* data[key], as a spread takes it: nothing when data has no such field
fieldOf(data, key) == IF key \in DOMAIN data THEN data[key] ELSE <<>>

\* the optimistic copy each update puts in the cache
optimisticCopy(data, route, argument) ==
    CASE route = "config" ->
            withField(data, "settings", spread(fieldOf(data, "settings"), argument))
      [] route = "commands" ->
            withField(data, "commands", spread(fieldOf(data, "commands"), argument))
      [] route = "prompt" -> withField(data, "systemPrompt", argument)

\* useSWR fetches the key when the page is mounted
ClientLoad ==
    /\ client.pc = "mounted"
    /\ \E answer \in GetAnswers(files[ClientGuild], now) :
        LET data == fetcher(answer)
        IN  /\ client' = [client EXCEPT
                    !.pc = "fresh",
                    !.cache = IF data.thrown THEN @ ELSE data.value,
                    !.confirmed = IF answer.ok THEN answer.body ELSE @]
            /\ files' = [files EXCEPT ![ClientGuild] = answer.file]
    /\ UNCHANGED <<applied, now, started, proc, last>>

\* updateSettings, updateCommands, updatePrompt, up to the fetch of the PUT:
\* mutate(optimistic copy, false). Without data they return at once. The pages
\* await each update before they start the next.
ClientUpdate(route, argument) ==
    /\ client.pc = "fresh"
    /\ client.cache # undefined
    /\ client.calls < MaxRequests
    /\ client' = [client EXCEPT
            !.pc = "putting", !.route = route, !.argument = argument,
            !.cache = optimisticCopy(client.cache, route, argument),
            !.optimistic = optimisticCopy(client.cache, route, argument),
            !.rethrown = FALSE, !.settled = undefined, !.calls = @ + 1]
    /\ UNCHANGED <<applied, files, now, started, proc, last>>

\* the PUT is answered: mutate() starts a re-fetch, and an answer that is not
\* ok, or none, is thrown to the caller after it
ClientPutAnswered ==
    /\ client.pc = "putting"
    /\ \E answer \in PutAnswers(client.route, client.argument, files[ClientGuild], now) :
        /\ client' = [client EXCEPT
                !.pc = "refetching", !.rethrown = ~answer.ok,
                !.settled = [put |-> IF answer.ok THEN "ok" ELSE answer.kind]]
        /\ files' = [files EXCEPT ![ClientGuild] = answer.file]
    /\ UNCHANGED <<applied, now, started, proc, last>>

\* the re-fetch is answered: what the fetcher resolves to becomes the data of
\* the key; when it rejects, the data stays
ClientRefetched ==
    /\ client.pc = "refetching"
    /\ \E answer \in GetAnswers(files[ClientGuild], now) :
        LET data == fetcher(answer)
        IN  /\ client' = [client EXCEPT
                    !.pc = "fresh",
                    !.cache = IF data.thrown THEN @ ELSE data.value,
                    !.confirmed = IF answer.ok THEN answer.body ELSE @,
                    !.settled = [put |-> client.settled.put,
                                 refetch |-> IF answer.ok THEN "ok" ELSE answer.kind]]
            /\ files' = [files EXCEPT ![ClientGuild] = answer.file]
    /\ UNCHANGED <<applied, now, started, proc, last>>

NextClient ==
    \/ ClientLoad
    \/ \E route \in {"config", "commands", "prompt"} :
            \E argument \in Arguments(route) : ClientUpdate(route, argument)
    \/ ClientPutAnswered
    \/ ClientRefetched

SpecClient == Init /\ [][NextClient]_vars

(* ------------------------------------------------------------------ *)
(* The functions of lib/discord.ts and the verifiers, applied to every  *)
(* answer of the upstream                                               *)
(* ------------------------------------------------------------------ *)

UserAnswers == {UserOk(l) : l \in UpstreamLists} \cup UserFailures

\* the place of guild g in a list of the upstream, 0 when it is not in it
PlaceOf(list, g) ==
    IF \E i \in 1..Len(list) : list[i].id = g
    THEN CHOOSE i \in 1..Len(list) : list[i].id = g ELSE 0

\* A verifier is applied; the record keeps what the upstream held for the
\* guild asked about (listed, owner, permissions, name, botHas) and the outcome.
ApplyVerifyAccess ==
    /\ applied.op = "none"
    /\ \E route \in Routes, guildId \in GuildIds, list \in UpstreamLists,
          userKind \in {"ok", "status", "network"}, botAnswer \in BotAnswers :
        LET userAnswer == IF userKind = "ok" THEN UserOk(list)
                          ELSE [kind |-> userKind, guilds |-> <<>>]
            at == PlaceOf(list, guildId)
            outcome == routeVerifier(route, guildId, userAnswer, botAnswer)
        IN  /\ userKind # "ok" => list = <<>>
            /\ applied' =
                [op |-> "verifyAccess", route |-> route, guildId |-> guildId,
                 userKind |-> userKind, botKind |-> botAnswer.kind,
                 listed |-> at # 0,
                 owner |-> IF at # 0 THEN list[at].owner ELSE FALSE,
                 permissions |-> IF at # 0 THEN list[at].permissions ELSE 0,
                 name |-> IF at # 0 THEN list[at].name ELSE NULL,
                 botHas |-> guildId \in botAnswer.ids,
                 thrown |-> outcome.thrown,
                 authorized |-> IF outcome.thrown THEN FALSE ELSE outcome.value.authorized,
                 guildName |-> IF outcome.thrown THEN NULL ELSE outcome.value.guildName]
    /\ UNCHANGED <<client, files, now, started, proc, last>>

\* getManageableGuilds is applied; the record keeps what the upstream held
\* (the caller's guilds, the bot's guild ids), the kinds of the two answers and
\* the outcome.
ApplyGetManageableGuilds ==
    /\ applied.op = "none"
    /\ \E list \in UpstreamLists, userKind \in {"ok", "status", "network"},
          botAnswer \in BotAnswers :
        LET userAnswer == IF userKind = "ok" THEN UserOk(list)
                          ELSE [kind |-> userKind, guilds |-> <<>>]
            outcome == getManageableGuilds(userAnswer, botAnswer)
        IN  /\ userKind # "ok" => list = <<>>
            /\ applied' =
                [op |-> "getManageableGuilds",
                 list |-> list, botIds |-> botAnswer.ids,
                 userKind |-> userAnswer.kind, botKind |-> botAnswer.kind,
                 thrown |-> outcome.thrown,
                 value |-> IF outcome.thrown THEN <<>> ELSE outcome.value,
                 userFetches |-> outcome.userFetches,
                 botFetches |-> outcome.botFetches]
    /\ UNCHANGED <<client, files, now, started, proc, last>>

\* getGuildStats is applied; the record keeps the stats file and the result.
ApplyGetGuildStats ==
    /\ applied.op = "none"
    /\ \E content \in StatsArtifacts, guildId \in GuildIds :
        applied' = [op |-> "getGuildStats", guildId |-> guildId,
                    artifact |-> content,
                    result |-> getGuildStats(content, guildId)]
    /\ UNCHANGED <<client, files, now, started, proc, last>>

\* body.systemPrompt?.trim() || null is applied to a text, or to no text
ApplyPromptValue ==
    /\ applied.op = "none"
    /\ \E systemPrompt \in Texts(MaxPromptLen) \cup {NoPrompt} :
        applied' = [op |-> "promptValue", systemPrompt |-> systemPrompt,
                    value |-> updaterArgument("prompt", [kind |-> "object",
                                                         systemPrompt |-> systemPrompt])]
    /\ UNCHANGED <<client, files, now, started, proc, last>>

NextAccess ==
    \/ ApplyVerifyAccess
    \/ ApplyGetManageableGuilds
    \/ ApplyGetGuildStats
    \/ ApplyPromptValue

SpecAccess == Init /\ [][NextAccess]_vars

Next ==
    \E p \in Procs :
        \/ Start(p)
        \/ Auth(p)
        \/ Verify(p)
        \/ Body(p)
        \/ Read(p)
        \/ Create(p)
        \/ Creating(p)
        \/ Save(p)
        \/ Saving(p)
        \/ Stats(p)

Spec == Init /\ [][Next]_vars

\* the steps of the handler that serves request p: each of them follows the
\* return or the failure of an awaited call
Serve(p) ==
    \/ Auth(p)
    \/ Verify(p)
    \/ Body(p)
    \/ Read(p)
    \/ Create(p)
    \/ Creating(p)
    \/ Save(p)
    \/ Saving(p)
    \/ Stats(p)

\* One request after the other, where every awaited call returns or fails:
\* a handler that can go on does go on. (No step of a handler waits for
\* another request; what the other requests do to the files is what the
\* earlier requests have done to them here.)
NextLive == \E p \in {"r1"} : Start(p) \/ Serve(p)

SpecLive == Init /\ [][NextLive]_vars /\ WF_vars(Serve("r1"))

(* ------------------------------------------------------------------ *)
(* Properties of access verification (SpecAccess)                       *)
(* ------------------------------------------------------------------ *)

\* bit b (a power of two) is set in the bitmask n
HasBit(n, b) == (n \div b) % 2 = 1

\* C1: when both upstream queries answer, verifyAccess(G) is authorized exactly
\* when the bot is in G and the caller's list holds G with the owner flag, bit
\* 0x8 or bit 0x20; a non-owner with neither bit is refused though the bot is
\* present.
AuthorizedIffBotAndManage ==
    (applied.op = "verifyAccess" /\ applied.userKind = "ok" /\ applied.botKind = "ok") =>
        /\ ~applied.thrown
        /\ applied.authorized <=>
            /\ applied.botHas
            /\ applied.listed
            /\ \/ applied.owner
               \/ HasBit(applied.permissions, 8)
               \/ HasBit(applied.permissions, 32)

NonOwnerWithoutBitsRefused ==
    /\ applied.op = "verifyAccess"
    /\ applied.userKind = "ok" /\ applied.botKind = "ok"
    /\ applied.botHas /\ applied.listed /\ ~applied.owner
    /\ applied.permissions = 7
    /\ ~applied.authorized

\* C2: on each of the four routes, a guild that is not in the bot's guild set
\* is refused, whatever the owner flag and the bitmask of the caller.
BotAbsentRefused ==
    (applied.op = "verifyAccess" /\ ~applied.botHas) => ~applied.authorized

OwnerRefusedWithoutBot ==
    /\ applied.op = "verifyAccess" /\ applied.route = "config"
    /\ applied.userKind = "ok" /\ applied.botKind = "ok"
    /\ applied.listed /\ applied.owner /\ applied.permissions = MaxPerm
    /\ ~applied.botHas
    /\ ~applied.thrown /\ ~applied.authorized

\* C3 as stated: a caller with the owner flag on the guild is authorized, even
\* with a bitmask of zero.
OwnerAuthorized ==
    (/\ applied.op = "verifyAccess"
     /\ applied.userKind = "ok" /\ applied.botKind = "ok"
     /\ applied.listed /\ applied.owner) => applied.authorized

\* C3: a caller with the owner flag on a guild the bot is in is authorized, even
\* with a bitmask of zero.
OwnerAuthorizedWhereBotIs ==
    (/\ applied.op = "verifyAccess"
     /\ applied.userKind = "ok"
     /\ applied.listed /\ applied.owner
     /\ applied.botHas) => (~applied.thrown /\ applied.authorized)

OwnerWithZeroBitmaskAuthorized ==
    /\ applied.op = "verifyAccess"
    /\ applied.userKind = "ok" /\ applied.botKind = "ok"
    /\ applied.listed /\ applied.owner /\ applied.permissions = 0
    /\ applied.botHas
    /\ applied.authorized

Requests == {proc[p] : p \in Procs} \cup {last}

\* the record a guild's file holds
stored(g) == getGuildConfig(files[g])

\* C4: a request reads or writes the file of a guild only after its session
\* was resolved and its verifier granted access to that very guild; a request
\* answered 401 or 403 has read or written no file.
StoreOnlyAfterAccess ==
    /\ \A r \in Requests : \A g \in r.touched :
            r.hadSession /\ r.verdict = "granted" /\ r.verifiedFor = g
    /\ \A r \in Requests : r.pc \in {"read", "create", "creating", "save", "saving"} =>
            r.hadSession /\ r.verdict = "granted" /\ r.verifiedFor = r.guildId
    /\ last.status \in {401, 403} => last.touched = {}

RefusedBesideStoredRecord ==
    /\ last.pc = "done" /\ last.status = 403 /\ last.touched = {}
    /\ last.route = "config" /\ last.method = "PUT"
    /\ stored(last.guildId) # undefined

\* C5: a request is answered 401 when it has no session or token, 403 when its
\* verifier refuses, 500 when the operation of an authorized request throws,
\* and 200 with the result of the operation when that succeeds.
StatusMapping ==
    last.pc = "done" =>
        /\ last.status \in {200, 401, 403, 500}
        /\ ~last.hadSession => /\ last.status = 401
                               /\ last.resp = [error |-> "Unauthorized"]
        /\ (last.hadSession /\ last.verdict = "denied") =>
                /\ last.status = 403
                /\ last.resp = [error |-> "Forbidden"]
        /\ (last.verdict = "granted" /\ last.op = "threw") => last.status = 500
        /\ (last.verdict = "granted" /\ last.op = "ok") =>
                /\ last.status = 200
                /\ last.route # "stats" =>
                    /\ last.config = stored(last.guildId)
                    /\ last.route = "config" => last.resp = last.config
                    /\ last.route = "commands" =>
                            last.resp = [commands |-> last.config.commands]
                    /\ last.route = "prompt" =>
                            last.resp.systemPrompt = last.config.systemPrompt
        /\ last.status = 200 => (last.verdict = "granted" /\ last.op = "ok")
        /\ last.status = 401 => ~last.hadSession
        /\ last.status = 403 => last.verdict = "denied"

WriteFailureAnswered500 ==
    /\ last.pc = "done" /\ last.method = "PUT"
    /\ last.verdict = "granted" /\ last.op = "threw"
    /\ last.touched # {}
    /\ last.status = 500

\* C6: a request during which the query for the caller's guilds or the query
\* for the bot's guilds failed is never answered 200, and reads and writes no
\* file.
FailClosed ==
    \A r \in Requests : (r.userFailed \/ r.botFailed) =>
        /\ r.touched = {}
        /\ r.pc \in {"done"}
        /\ r.status # 200

BotQueryFailedRefused ==
    /\ last.pc = "done" /\ last.botFailed /\ ~last.userFailed
    /\ last.status = 403 /\ last.touched = {}

SettingsUpdated ==
    /\ last.pc = "done" /\ last.status = 200
    /\ last.route = "config" /\ last.method = "PUT"

\* C9: when an update of settings was written between the read and the write
\* of another update of the same guild, and both succeed, the fields that only
\* the first one named hold in the file what the second one read: the first
\* update is lost.
LostUpdate ==
    SettingsUpdated =>
        \A m \in last.missed : m.route = "config" =>
            \A f \in DOMAIN m.argument \ DOMAIN last.body :
                stored(last.guildId).settings[f] = last.base.settings[f]

TemperatureUpdateLost ==
    /\ SettingsUpdated
    /\ last.body = [scoreThreshold |-> 9]
    /\ [route |-> "config", argument |-> [temperature |-> 5]] \in last.missed
    /\ stored(last.guildId).settings = [temperature |-> 7, scoreThreshold |-> 9]

\* C26: while the file of a guild holds a record, no step of a GET, be it
\* during other GETs or during a write to that guild, changes the record
\* that the file holds.
ReadsLeaveRecord ==
    [][\A p \in Procs :
        (/\ proc[p].method = "GET"
         /\ proc'[p].pc # proc[p].pc
         /\ stored(proc[p].guildId) # undefined)
        => getGuildConfig(files'[proc[p].guildId]) = stored(proc[p].guildId)]_vars

\* C10: an update of settings that runs alone on a stored record leaves in the
\* file the named fields as given and every other field of settings as it was.
PartialUpdateKeepsOtherFields ==
    (SettingsUpdated /\ last.alone /\ last.pre.file = "json") =>
        \A f \in DOMAIN DEFAULT_SETTINGS :
            stored(last.guildId).settings[f] =
                IF f \in DOMAIN last.body THEN last.body[f]
                ELSE parse(last.pre.text).settings[f]

OtherFieldKept ==
    /\ SettingsUpdated /\ last.alone /\ last.pre.file = "json"
    /\ parse(last.pre.text).settings.temperature = 5
    /\ last.body = [scoreThreshold |-> 9]
    /\ stored(last.guildId).settings = [temperature |-> 5, scoreThreshold |-> 9]

(* ------------------------------------------------------------------ *)
(* Properties of the store functions, called one at a time (SpecStore)  *)
(* ------------------------------------------------------------------ *)

\* the call just answered is an updater that returned
UpdaterReturned ==
    /\ last.pc = "done" /\ last.status = 200 /\ last.method = "PUT"

\* C11: an update of a record that the file held has left the record with an
\* updatedAt strictly greater than the one it had.
UpdatedAtStrictlyIncreases ==
    (UpdaterReturned /\ last.pre.file = "json") =>
        last.config.updatedAt > parse(last.pre.text).updatedAt

\* the call just answered is a getOrCreateGuildConfig that returned, and so
\* is the call that returned just before it was made, for the same guild
GotTwice ==
    /\ last.pc = "done" /\ last.status = 200
    /\ last.route = "config" /\ last.method = "GET"
    /\ last.prev # undefined
    /\ last.prev.guildId = last.guildId

\* C12: the second of two calls of getOrCreateGuildConfig in succession
\* returns the record the first returned, updatedAt and updatedBy included,
\* and leaves the file as it found it.
GetOrCreateIdempotent ==
    GotTwice =>
        /\ last.config = last.prev.config
        /\ files[last.guildId] = last.pre
        /\ files[last.guildId] = [file |-> "json", text |-> stringify(last.prev.config)]

SecondGetReturnsCreatedRecord ==
    /\ GotTwice
    /\ now > last.config.updatedAt
    /\ last.config.updatedBy = "system"
    /\ last.config = last.prev.config

\* the call just answered is a getOrCreateGuildConfig that found no file, or a
\* file that does not parse
GotWithoutRecord ==
    /\ last.pc = "done"
    /\ last.route = "config" /\ last.method = "GET"
    /\ last.pre \in {Absent, Truncated}

UpdaterReturnsPersistedRecord ==
    UpdaterReturned =>
        /\ files[last.guildId] = [file |-> "json", text |-> stringify(last.config)]
        /\ stored(last.guildId) = last.config
        /\ DOMAIN last.config = {"guildId", "guildName", "settings", "commands",
                                 "systemPrompt", "updatedAt", "updatedBy"}
        /\ last.config.guildId = last.guildId
        /\ last.config.updatedBy = last.userId

ActorReplaced ==
    /\ UpdaterReturned
    /\ last.route = "commands"
    /\ last.pre.file = "json" /\ parse(last.pre.text).updatedBy = "u1"
    /\ last.userId = "u2"
    /\ stored(last.guildId).updatedBy = "u2"

\* C22: an updater that returns has left every sub-object but its own as the
\* record held it before the call (as the defaults have it, where the file
\* held no record): updateGuildSettings the commands and the systemPrompt;
\* updateGuildCommands the settings, the systemPrompt and every toggle that it
\* was not given; updateGuildPrompt the settings and the commands, and the
\* systemPrompt is the one it was given.
UpdateTouchesOwnSubObject ==
    UpdaterReturned =>
        LET before == IF getGuildConfig(last.pre) # undefined
                      THEN getGuildConfig(last.pre)
                      ELSE newConfig(last.guildId, last.access.guildName, 0)
            after == stored(last.guildId)
        IN  /\ last.route = "config" =>
                /\ after.commands = before.commands
                /\ after.systemPrompt = before.systemPrompt
            /\ last.route = "commands" =>
                /\ after.settings = before.settings
                /\ after.systemPrompt = before.systemPrompt
                /\ \A k \in DOMAIN after.commands :
                    IF k \in DOMAIN last.body THEN after.commands[k] = last.body[k]
                    ELSE after.commands[k] = before.commands[k]
            /\ last.route = "prompt" =>
                /\ after.settings = before.settings
                /\ after.commands = before.commands
                /\ after.systemPrompt = last.body

OtherToggleKept ==
    /\ UpdaterReturned
    /\ last.route = "commands" /\ last.body = [ping |-> FALSE]
    /\ last.pre.file = "json" /\ ~parse(last.pre.text).commands.beer
    /\ stored(last.guildId).commands = [beer |-> FALSE, ping |-> FALSE]

\* C28: an updater called for a guild whose file holds a record leaves, in
\* the record it writes and returns, the guildId and the guildName that the
\* record had, whatever the display name it was called with; and where its
\* write fails, the file holds no record with another guildId or guildName.
IdentityFixedAtCreation ==
    (last.pc = "done" /\ last.method = "PUT" /\ getGuildConfig(last.pre) # undefined) =>
        LET before == getGuildConfig(last.pre)
            after == stored(last.guildId)
        IN  /\ last.op = "ok" => after # undefined
            /\ after # undefined =>
                    /\ after.guildId = before.guildId
                    /\ after.guildName = before.guildName
            /\ last.op = "ok" =>
                    /\ last.config.guildId = before.guildId
                    /\ last.config.guildName = before.guildName

NameKeptAgainstOtherName ==
    /\ UpdaterReturned
    /\ getGuildConfig(last.pre) # undefined
    /\ getGuildConfig(last.pre).guildName = "Alpha"
    /\ last.access.guildName = "Beta"
    /\ stored(last.guildId).guildName = "Alpha"
    /\ stored(last.guildId).updatedBy = "u2"

\* C15: the file of a guild holds at most one record, the record of that
\* guild; a call for a guild whose file held a record leaves a record in it;
\* and a call for a guild leaves the file of every other guild as it was.
RecordKeptAndOthersUntouched ==
    /\ \A g \in GuildIds : stored(g) # undefined => stored(g).guildId = g
    /\ last.pc = "done" =>
        /\ last.pre.file = "json" => stored(last.guildId) # undefined
        /\ last.touched \subseteq {last.guildId}

\* C16: an updater that throws, so that its PUT is answered 500, leaves in
\* the file the record that the file held when it was called.
FailedUpdateLeavesRecord ==
    (/\ last.pc = "done" /\ last.method = "PUT"
     /\ last.status = 500
     /\ last.pre.file = "json") => files[last.guildId] = last.pre

(* ------------------------------------------------------------------ *)
(* Properties of the stats reader (SpecAccess) and of its route (Spec)  *)
(* ------------------------------------------------------------------ *)

\* C17: getGuildStats(G) returns null exactly when the stats file is absent
\* or does not parse; for a file with no entry for G it returns zero counters
\* with the uptime and the latency of the file; for a file with an entry for G
\* it returns the counters of that entry.
StatsReader ==
    applied.op = "getGuildStats" =>
        LET file == applied.artifact
            result == applied.result
        IN  /\ result = undefined <=> file \in {Absent, Truncated}
            /\ file.file = "json" =>
                /\ result.botUptime = file.value.uptime
                /\ result.botLatency = file.value.latency
                /\ applied.guildId \notin DOMAIN file.value.guilds =>
                    /\ result.messagesCached = 0
                    /\ result.tokensUsed = 0
                /\ applied.guildId \in DOMAIN file.value.guilds =>
                    /\ result.messagesCached =
                            file.value.guilds[applied.guildId].messagesCached
                    /\ result.tokensUsed = file.value.guilds[applied.guildId].tokensUsed
                    /\ result.lastActivity =
                            file.value.guilds[applied.guildId].lastActivity

ZeroCountersWithoutEntry ==
    /\ applied.op = "getGuildStats"
    /\ applied.guildId = "7"
    /\ applied.artifact.file = "json"
    /\ DOMAIN applied.artifact.value.guilds = {"42"}
    /\ applied.result # undefined
    /\ applied.result.messagesCached = 0 /\ applied.result.tokensUsed = 0
    /\ applied.result.botUptime = "1h" /\ applied.result.botLatency = 42

\* C18: the stats route answers an authorized caller 200, never 500; when the
\* stats file is absent or does not parse, with the placeholder values.
StatsPlaceholder ==
    (last.pc = "done" /\ last.route = "stats" /\ last.verdict = "granted") =>
        /\ last.status = 200
        /\ last.pre \in {Absent, Truncated} =>
            last.resp = [messagesCached |-> 0, tokensUsed |-> 0,
                         lastActivity |-> "Never", botUptime |-> "Unknown",
                         botLatency |-> 0]

PlaceholderForUnparseableStats ==
    /\ last.pc = "done" /\ last.route = "stats" /\ last.verdict = "granted"
    /\ last.pre = Truncated
    /\ last.status = 200
    /\ last.resp.lastActivity = "Never" /\ last.resp.botUptime = "Unknown"

(* ------------------------------------------------------------------ *)
(* Properties of the guild list (SpecAccess)                            *)
(* ------------------------------------------------------------------ *)

\* the caller can manage the guild u of the upstream
Manageable(u) == u.owner \/ HasBit(u.permissions, 8) \/ HasBit(u.permissions, 32)

BotGuildsFirstThenByName ==
    (applied.op = "getManageableGuilds" /\ ~applied.thrown) =>
        LET value == applied.value
        IN  \A i, j \in 1..Len(value) : i < j =>
                /\ value[j].hasBot => value[i].hasBot
                /\ value[i].hasBot = value[j].hasBot =>
                        NameRank(value[i].name) <= NameRank(value[j].name)

BotGuildMovedBeforeEarlierName ==
    /\ applied.op = "getManageableGuilds" /\ ~applied.thrown
    /\ applied.botIds = {"7"}
    /\ Len(applied.list) = 2
    /\ applied.list[1].id = "42" /\ applied.list[1].name = "Alpha"
    /\ applied.list[2].id = "7" /\ applied.list[2].name = "Beta"
    /\ Len(applied.value) = 2
    /\ applied.value[1].id = "7" /\ applied.value[1].hasBot
    /\ applied.value[2].id = "42" /\ ~applied.value[2].hasBot

(* ------------------------------------------------------------------ *)
(* Properties of the browser's cache (SpecClient)                       *)
(* ------------------------------------------------------------------ *)

\* C19: when an update of a record that the browser had loaded has ended and
\* the re-fetch that ends it was answered, the cache holds the record the
\* server stores (after a PUT that failed: not the optimistic copy but the
\* last confirmed record), and a PUT that failed was thrown to the caller.
CacheSettlesOnServerRecord ==
    (/\ client.pc = "fresh"
     /\ client.confirmed # undefined
     /\ client.settled # undefined
     /\ client.settled.refetch \in {"ok", "response"}) =>
        /\ client.cache = stored(ClientGuild)
        /\ client.settled.put # "ok" => client.rethrown

(* ------------------------------------------------------------------ *)
(* Properties of the prompt endpoint (Spec)                             *)
(* ------------------------------------------------------------------ *)

\* the request just answered is a prompt PUT that stored what a body submitted
PromptWritten ==
    /\ last.pc = "done" /\ last.status = 200
    /\ last.route = "prompt" /\ last.method = "PUT"
    /\ last.raw # undefined /\ last.raw.systemPrompt # NoPrompt

\* what that request submitted
submitted == last.raw.systemPrompt

\* C21: a prompt PUT that submitted the empty string or the built-in default
\* prompt has set the systemPrompt to null and answers isCustom = false; one
\* that submitted any other text has set it to the trimmed text (to null where
\* nothing is left of the text once trimmed).
DefaultPromptStoredAsNull ==
    PromptWritten =>
        IF submitted = <<>> \/ submitted = DEFAULT_SYSTEM_PROMPT
        THEN last.config.systemPrompt = NoPrompt /\ ~last.resp.isCustom
        ELSE last.config.systemPrompt =
                IF trim(submitted) = <<>> THEN NoPrompt ELSE trim(submitted)

\* C29: the systemPrompt of every record in the store is null, or a text that
\* is not empty and neither begins nor ends with a blank; and a prompt PUT
\* that submitted the empty text or blanks only has stored null.
StoredPromptNullOrTrimmed ==
    /\ \A g \in GuildIds : stored(g) # undefined =>
            LET text == stored(g).systemPrompt
            IN  \/ text = NoPrompt
                \/ /\ text # <<>>
                   /\ Head(text) # " " /\ text[Len(text)] # " "
                   /\ trim(text) = text
    /\ (PromptWritten /\ \A i \in 1..Len(submitted) : submitted[i] = " ") =>
            /\ last.config.systemPrompt = NoPrompt
            /\ stored(last.guildId).systemPrompt = NoPrompt

BlanksReplacedTrimmedPromptByNull ==
    /\ PromptWritten /\ submitted = <<" ">>
    /\ last.base.systemPrompt = <<"a", "a">>
    /\ stored(last.guildId).systemPrompt = NoPrompt

(* ------------------------------------------------------------------ *)
(* Properties of the order of a handler's steps (Spec)                  *)
(* ------------------------------------------------------------------ *)

\* C27: a PUT that was granted access and whose body is no JSON text is
\* answered 500 with the error of its handler, and has neither read nor
\* written a file: its updater was never called.
UnparseableBodyAnswered500 ==
    /\ (last.pc = "done" /\ last.raw # undefined /\ last.raw.kind = "invalid") =>
            /\ last.verdict = "granted" /\ last.method = "PUT"
            /\ last.status = 500
            /\ last.resp = failBody(last.route, last.method)
            /\ last.touched = {}
            /\ last.config = undefined
    /\ \A p \in Procs : proc[p].raw # undefined => proc[p].raw.kind = "object"

UnparseableBodyBesideStoredRecord ==
    /\ last.pc = "done" /\ last.raw # undefined /\ last.raw.kind = "invalid"
    /\ last.route = "prompt" /\ last.status = 500 /\ last.touched = {}
    /\ stored(last.guildId) # undefined

\* C24: a request that has no session, or a session without access token, is
\* answered 401 and has sent upstream neither the query for the caller's
\* guilds nor the query for the bot's guilds.
NoSessionNoQuery ==
    /\ \A r \in Requests : ~r.hadSession => (r.userFetches = 0 /\ r.botFetches = 0)
    /\ (last.pc = "done" /\ ~last.hadSession) =>
            /\ last.status = 401
            /\ last.verdict = "none" /\ ~last.userFailed /\ ~last.botFailed
    /\ last.status = 401 => (last.userFetches = 0 /\ last.botFetches = 0)

\* a request is refused for want of a session while another, which had one,
\* has sent both queries
UnauthorizedAfterQueriedRequest ==
    /\ last.pc = "done" /\ last.status = 401 /\ ~last.hadSession
    /\ last.userFetches = 0 /\ last.botFetches = 0
    /\ \E p \in Procs : /\ proc[p].pc \in {"body", "read", "stats"}
                         /\ proc[p].userFetches = 1 /\ proc[p].botFetches = 1

(* ------------------------------------------------------------------ *)
(* Properties of the life of a request (SpecLive)                       *)
(* ------------------------------------------------------------------ *)

\* where a handler's step may take it from each place
Successors(pc) ==
    CASE pc = "idle" -> {"auth"}
      [] pc = "auth" -> {"verify", "idle"}
      [] pc = "verify" -> {"body", "read", "stats", "idle"}
      [] pc = "body" -> {"read", "idle"}
      [] pc = "read" -> {"create", "save", "idle"}
      [] pc = "create" -> {"creating", "idle"}
      [] pc = "creating" -> {"save", "idle"}
      [] pc = "save" -> {"saving", "idle"}
      [] pc = "saving" -> {"idle"}
      [] pc = "stats" -> {"idle"}

\* a step of request p: it follows the order session check, verifier, store;
\* it comes to the verifier with a session only, and to the body and the
\* store with access granted only; and it ends the request exactly when it
\* answers it, with one response
RequestStep(p) ==
    LET r == proc[p]
        s == proc'[p]
    IN  s.pc # r.pc =>
            /\ s.pc \in Successors(r.pc)
            /\ s.pc = "verify" => s.hadSession
            /\ s.pc \in {"body", "read", "stats"} =>
                    s.hadSession /\ s.verdict = "granted"
            /\ s.pc \notin {"idle", "auth"} =>
                    s.route = r.route /\ s.guildId = r.guildId /\ s.method = r.method
            /\ s.pc = "idle" <=>
                    /\ last'.pc = "done" /\ last'.status \in {200, 401, 403, 500}
                    /\ last'.resp # undefined
                    /\ last'.route = r.route /\ last'.guildId = r.guildId
                    /\ \A o \in Procs \ {p} : proc'[o].pc = proc[o].pc

\* C23: every request that the server has received is answered in the end,
\* once; until then it goes from the session check to the verifier, and from
\* the verifier to the store and to the response, without skipping either.
EveryRequestAnsweredOnce ==
    /\ [][\A p \in Procs : RequestStep(p)]_vars
    /\ \A p \in Procs : (proc[p].pc # "idle") ~> (proc[p].pc = "idle")

WriteAnsweredAfterEveryStage ==
    /\ last.pc = "done" /\ last.status = 200 /\ last.method = "PUT"
    /\ last.hadSession /\ last.verdict = "granted" /\ last.raw # undefined
    /\ last.touched = {last.guildId}
    /\ stored(last.guildId) = last.config

====
